---- MODULE Spec2Model ----
(***************************************************************************)
(* A model of PoliVec_Projector.py: the vector-file readers, the           *)
(* DW-NOMINATE reference reader, the scalar projection, the per-session    *)
(* evaluation and the two multi-session loops.                             *)
(*                                                                         *)
(* Text is a sequence of one-character strings, a text file a sequence of  *)
(* lines, a csv file the sequence of rows csv.DictReader yields.  Floats   *)
(* are the integers that the decimal literals of the inputs denote; a      *)
(* correlation coefficient is carried in hundredths.  A raised Python      *)
(* exception is a record [kind |-> "raise", exc |-> <type>, site |->       *)
(* <the call that raised>].                                                *)
(***************************************************************************)
EXTENDS Integers, Sequences, FiniteSets, TLC

VARIABLES
    vec_file,      \* the lines of the .vec file handed to a reader
    vec_out,       \* what the reader returned or raised
    csv_file,      \* the rows of the DW-NOMINATE csv file
    csv_out,       \* what read_dwnominate_csv returned or raised
    mode,          \* "file": compare_among_years, "dict": dict_compare_among_years
    vec_dict,      \* the dict argument of dict_compare_among_years
    start,         \* first session of the range
    end,           \* one past the last session of the range
    cgrs_sess,     \* the loop variable of the running loop
    sum_pearson,   \* running sum of Pearson's r (hundredths, or NaN)
    sum_spearman,  \* running sum of Spearman's rho (hundredths, or NaN)
    calls,         \* the sessions evaluated so far, in call order
    last,          \* inputs, join and outcome of the latest session evaluated
    printed,       \* the coefficients printed per session, in print order
    status,        \* "start", "running", "done" or "aborted"
    error,         \* the exception that left the function, if one did
    report         \* the two printed averages: each a sum and what it is divided by

vecVars == <<vec_file, vec_out>>
csvVars == <<csv_file, csv_out>>
aggVars == <<mode, vec_dict, start, end, cgrs_sess, sum_pearson, sum_spearman,
             calls, last, printed, status, error, report>>
vars == <<vec_file, vec_out, csv_file, csv_out, mode, vec_dict, start, end,
          cgrs_sess, sum_pearson, sum_spearman, calls, last, printed, status, error,
          report>>

(***************************************************************************)
(* Bounds of the model.                                                    *)
(***************************************************************************)
MaxRows == 3       \* rows of a csv file
MaxLines == 3      \* content lines of a .vec file
MaxCohorts == 3    \* sessions in a range
MaxStart == 2      \* first session of a range is 1..MaxStart

(***************************************************************************)
(* Python values and text helpers.                                         *)
(***************************************************************************)
None == [kind |-> "none"]

\* a float: a number (an integer here) or nan
Num(v) == [nan |-> FALSE, v |-> v]
NaN == [nan |-> TRUE, v |-> 0]

Raise(exc, site) == [kind |-> "raise", exc |-> exc, site |-> site]

BoundedSeq(S, n) == UNION {[1..k -> S] : k \in 0..n}

UpperCase == <<"A", "B", "C", "D", "E", "F", "G", "H", "I", "J", "K", "L", "M",
               "N", "O", "P", "Q", "R", "S", "T", "U", "V", "W", "X", "Y", "Z">>
LowerCase == <<"a", "b", "c", "d", "e", "f", "g", "h", "i", "j", "k", "l", "m",
               "n", "o", "p", "q", "r", "s", "t", "u", "v", "w", "x", "y", "z">>

\* str.lower, one character
lower_char(c) ==
    IF \E i \in 1..26 : UpperCase[i] = c
    THEN LowerCase[CHOOSE i \in 1..26 : UpperCase[i] = c]
    ELSE c

\* str.lower
lower(s) == [i \in 1..Len(s) |-> lower_char(s[i])]

\* re.sub(',.*', '', s): every comma goes with the rest of its line ('.' does
\* not match a line break, after which the search goes on)
RECURSIVE re_sub_skip(_)
RECURSIVE re_sub(_)
re_sub_skip(s) ==
    IF s = <<>> THEN <<>>
    ELSE IF Head(s) = "\n" THEN re_sub(s)
    ELSE re_sub_skip(Tail(s))
re_sub(s) ==
    IF s = <<>> THEN <<>>
    ELSE IF Head(s) = "," THEN re_sub_skip(Tail(s))
    ELSE <<Head(s)>> \o re_sub(Tail(s))

Digits == <<"0", "1", "2", "3", "4", "5", "6", "7", "8", "9">>
IsDigit(c) == \E i \in 1..10 : Digits[i] = c
DigitVal(c) == (CHOOSE i \in 1..10 : Digits[i] = c) - 1

RECURSIVE DigitsVal(_)
DigitsVal(s) ==
    IF s = <<>> THEN 0 ELSE 10 * DigitsVal(SubSeq(s, 1, Len(s) - 1)) + DigitVal(s[Len(s)])

AllDigits(s) == s /= <<>> /\ \A i \in 1..Len(s) : IsDigit(s[i])

\* the literals this model feeds to float() and int(): an optional sign, then digits
IsNumber(s) ==
    /\ s /= <<>>
    /\ IF Head(s) \in {"-", "+"} THEN AllDigits(Tail(s)) ELSE AllDigits(s)
NumberVal(s) ==
    IF Head(s) = "-" THEN 0 - DigitsVal(Tail(s))
    ELSE IF Head(s) = "+" THEN DigitsVal(Tail(s))
    ELSE DigitsVal(s)

\* str.strip().split(): the whitespace-separated tokens of a line
RECURSIVE split_from(_, _, _)
split_from(s, cur, acc) ==
    IF s = <<>> THEN (IF cur = <<>> THEN acc ELSE Append(acc, cur))
    ELSE IF Head(s) = " "
         THEN split_from(Tail(s), <<>>, IF cur = <<>> THEN acc ELSE Append(acc, cur))
         ELSE split_from(Tail(s), Append(cur, Head(s)), acc)
split(s) == split_from(s, <<>>, <<>>)

(***************************************************************************)
(* The names and words of the inputs.                                      *)
(***************************************************************************)
MissingTag == <<"(", "m", "i", "s", "s", "i", "n", "g", " ", "s", "c", "o", "r", "e", ")">>
w_conservative == <<"c", "o", "n", "s", "e", "r", "v", "a", "t", "i", "v", "e">>
w_liberal == <<"l", "i", "b", "e", "r", "a", "l">>
w_good == <<"g", "o", "o", "d">>
w_bad == <<"b", "a", "d">>
w_coffee == <<"c", "o", "f", "f", "e", "e">>
w_alice == <<"a", "l", "i", "c", "e">>
w_bob == <<"b", "o", "b">>
w_carol == <<"c", "a", "r", "o", "l">>
w_dave == <<"d", "a", "v", "e">>
bn_alice == <<"A", "L", "I", "C", "E", ",", " ", "A", "n", "n">>
bn_bob == <<"B", "O", "B", ",", " ", "B", "o">>
bn_carol == <<"C", "A", "R", "O", "L", ",", " ", "C">>
bn_dave == <<"D", "A", "V", "E", ",", " ", "D">>
bn_eve == <<"E", "v", "e">>

Row(bioname, dim1) == [bioname |-> bioname, dim1 |-> dim1]

(***************************************************************************)
(* read_dwnominate_csv                                                     *)
(***************************************************************************)
\* a loop that leaves out the rows without a score
RECURSIVE csv_rows_skipping(_, _)
csv_rows_skipping(rows, acc) ==
    IF rows = <<>> THEN acc
    ELSE LET row == Head(rows) IN
         IF row.dim1 /= <<>>
         THEN csv_rows_skipping(Tail(rows),
                       [names |-> Append(acc.names, row.bioname),
                        ideology_scores |-> Append(acc.ideology_scores, row.dim1),
                        missing |-> acc.missing])
         ELSE csv_rows_skipping(Tail(rows),
                       [names |-> acc.names,
                        ideology_scores |-> acc.ideology_scores,
                        missing |-> Append(acc.missing, row.bioname)])

\* the loop over the rows: names, ideology_scores (still text) and missing
RECURSIVE csv_rows(_, _)
csv_rows(rows, acc) ==
    IF rows = <<>> THEN acc
    ELSE LET row == Head(rows) IN
         IF row.dim1 /= <<>>
         THEN csv_rows(Tail(rows),
                       [names |-> Append(acc.names, row.bioname),
                        ideology_scores |-> Append(acc.ideology_scores, row.dim1),
                        missing |-> acc.missing])
         ELSE csv_rows(Tail(rows),
                       [names |-> Append(acc.names, row.bioname \o MissingTag),
                        ideology_scores |-> Append(acc.ideology_scores, <<"0">>),
                        missing |-> Append(acc.missing, row.bioname)])

read_dwnominate_csv(rows) ==
    LET acc == csv_rows(rows, [names |-> <<>>, ideology_scores |-> <<>>, missing |-> <<>>])
    IN  IF \E i \in 1..Len(acc.ideology_scores) : ~IsNumber(acc.ideology_scores[i])
        THEN Raise("ValueError", "np.array")
        ELSE [kind |-> "ok",
              ideology_scores |-> [i \in 1..Len(acc.ideology_scores) |->
                                      NumberVal(acc.ideology_scores[i])],
              names |-> [i \in 1..Len(acc.names) |-> lower(re_sub(acc.names[i]))],
              printed_missing |-> acc.missing]

(***************************************************************************)
(* The reference reader on its own.                                        *)
(***************************************************************************)
CsvRows ==
    { Row(bn_alice, <<"1">>), Row(bn_bob, <<"-", "1">>), Row(bn_alice, <<>>),
      Row(bn_eve, <<>>), Row(bn_eve, <<"2">>), Row(bn_dave, <<"1", "2">>),
      Row(bn_carol, <<"x">>) }
CsvFiles == BoundedSeq(CsvRows, MaxRows)

IdleAgg ==
    /\ mode = "file" /\ vec_dict = <<>> /\ start = 1 /\ end = 1 /\ cgrs_sess = 1
    /\ sum_pearson = Num(0) /\ sum_spearman = Num(0) /\ calls = <<>> /\ last = None
    /\ printed = <<>> /\ status = "done" /\ error = None /\ report = None
IdleVec == vec_file = <<>> /\ vec_out = None
IdleCsv == csv_file = <<>> /\ csv_out = None

InitCsv == csv_file \in CsvFiles /\ csv_out = None /\ IdleVec /\ IdleAgg

ReadCsv ==
    /\ csv_out' = read_dwnominate_csv(csv_file)
    /\ UNCHANGED <<csv_file, vecVars, aggVars>>

NextCsv == ReadCsv

SpecCsv == InitCsv /\ [][NextCsv]_vars

(***************************************************************************)
(* The vector-file readers.                                                *)
(***************************************************************************)
h_3_2 == <<"3", " ", "2">>
h_2_2 == <<"2", " ", "2">>
h_1_2 == <<"1", " ", "2">>
h_x_2 == <<"x", " ", "2">>
h_2 == <<"2">>
h_0_2 == <<"0", " ", "2">>
l_alice == <<"a", "l", "i", "c", "e", " ", "1", " ", "0">>
l_bob == <<"b", "o", "b", " ", " ", "0", " ", "1", " ">>
l_alice2 == <<"a", "l", "i", "c", "e", " ", "-", "1", " ", "0">>
l_coffee == <<"c", "o", "f", "f", "e", "e", " ", "2", " ", "2">>
l_carol1 == <<"c", "a", "r", "o", "l", " ", "1">>
l_dave_x == <<"d", "a", "v", "e", " ", "x", " ", "1">>
l_blank == <<>>

\* f.readline(): the next line, or '' at the end of the file
readline(file, n) == IF n <= Len(file) THEN file[n] ELSE <<>>

parse_vector(line) ==
    LET toks == split(line)
    IN  IF toks = <<>> THEN Raise("IndexError", "parse_vector")
        ELSE [kind |-> "ok", vector |-> Tail(toks), label |-> Head(toks)]

\* np.array(vector, np.float32) of one list of tokens
np_array1(vector) ==
    IF \E j \in 1..Len(vector) : ~IsNumber(vector[j])
    THEN Raise("ValueError", "np.array")
    ELSE [kind |-> "ok", data |-> [j \in 1..Len(vector) |-> NumberVal(vector[j])]]

\* np.array(vectors, np.float32) of a list of lists of tokens, with its shape
np_array2(vectors) ==
    IF vectors = <<>> THEN [kind |-> "ok", shape |-> <<0>>, data |-> <<>>]
    ELSE IF \E i \in 1..Len(vectors) : Len(vectors[i]) /= Len(vectors[1])
    THEN Raise("ValueError", "np.array")
    ELSE IF \E i \in 1..Len(vectors) : np_array1(vectors[i]).kind = "raise"
    THEN Raise("ValueError", "np.array")
    ELSE [kind |-> "ok", shape |-> <<Len(vectors), Len(vectors[1])>>,
          data |-> [i \in 1..Len(vectors) |-> np_array1(vectors[i]).data]]

\* a shape check whose failed assertion is not caught
validate_shape_strict(shape, vocab_size, embed_dim) ==
    IF ~IsNumber(vocab_size) \/ ~IsNumber(embed_dim)
    THEN Raise("ValueError", "int")
    ELSE IF shape /= <<NumberVal(vocab_size), NumberVal(embed_dim)>>
    THEN Raise("AssertionError", "validate_shape")
    ELSE [kind |-> "ok", warned |-> FALSE]

\* int() of a header token that is no integer raises out of the try block, which
\* catches the AssertionError alone
validate_shape(shape, vocab_size, embed_dim) ==
    IF ~IsNumber(vocab_size) \/ ~IsNumber(embed_dim)
    THEN Raise("ValueError", "int")
    ELSE [kind |-> "ok",
          warned |-> shape /= <<NumberVal(vocab_size), NumberVal(embed_dim)>>]

\* the loop "for line in f" of read_vec_file and read_vec_file_with_axes
RECURSIVE vec_lines(_, _)
vec_lines(lines, acc) ==
    IF lines = <<>> THEN acc
    ELSE LET p == parse_vector(Head(lines)) IN
         IF p.kind = "raise" THEN p
         ELSE vec_lines(Tail(lines),
                        [kind |-> "ok", labels |-> Append(acc.labels, p.label),
                         vectors |-> Append(acc.vectors, p.vector)])

NoVectors == [kind |-> "ok", labels |-> <<>>, vectors |-> <<>>]

read_vec_file(file) ==
    LET header == split(readline(file, 1)) IN
    IF Len(header) /= 2 THEN Raise("ValueError", "header")
    ELSE LET read == vec_lines(Tail(file), NoVectors) IN
    IF read.kind = "raise" THEN read
    ELSE LET arr == np_array2(read.vectors) IN
    IF arr.kind = "raise" THEN arr
    ELSE LET v == validate_shape(arr.shape, header[1], header[2]) IN
    IF v.kind = "raise" THEN v
    ELSE [kind |-> "ok", vectors |-> arr.data, labels |-> read.labels,
          warned |-> v.warned]

read_vec_file_with_axes(file) ==
    LET axes == vec_lines([i \in 1..4 |-> readline(file, i)], NoVectors) IN
    IF axes.kind = "raise" THEN axes
    ELSE LET read == vec_lines(SubSeq(file, 5, Len(file)), NoVectors) IN
    IF read.kind = "raise" THEN read
    ELSE LET arr == np_array2(read.vectors) IN
    IF arr.kind = "raise" THEN arr
    ELSE LET ax == np_array2(axes.vectors) IN
    IF ax.kind = "raise" THEN ax
    ELSE [kind |-> "ok", vectors |-> arr.data, shape |-> arr.shape,
          axis_vectors |-> ax.data, axis_shape |-> ax.shape, labels |-> read.labels]

\* vec_dict[label] = value
DictSet(d, label, value) ==
    [k \in DOMAIN d \cup {label} |-> IF k = label THEN value ELSE d[k]]

\* the loop "for line in f" of read_vec_file_as_dict
RECURSIVE dict_lines(_, _)
dict_lines(lines, d) ==
    IF lines = <<>> THEN [kind |-> "ok", dict |-> d]
    ELSE LET p == parse_vector(Head(lines)) IN
         IF p.kind = "raise" THEN p
         ELSE LET arr == np_array1(p.vector) IN
              IF arr.kind = "raise" THEN arr
              ELSE dict_lines(Tail(lines), DictSet(d, p.label, arr.data))

read_vec_file_as_dict(file) ==
    LET header == split(readline(file, 1)) IN
    IF Len(header) /= 2 THEN Raise("ValueError", "header")
    ELSE LET read == dict_lines(Tail(file), <<>>) IN
    IF read.kind = "raise" THEN read
    ELSE IF w_coffee \notin DOMAIN read.dict THEN Raise("KeyError", "vec_dict['coffee']")
    ELSE LET v == validate_shape(<<Cardinality(DOMAIN read.dict), Len(read.dict[w_coffee])>>,
                                 header[1], header[2]) IN
    IF v.kind = "raise" THEN v
    ELSE [kind |-> "ok", dict |-> read.dict, warned |-> v.warned]

VecHeaders == {h_3_2, h_2_2, h_1_2, h_0_2, h_x_2, h_2}
VecLines == {l_alice, l_bob, l_alice2, l_coffee, l_carol1, l_dave_x, l_blank}
VecFiles ==
    {<<>>} \cup {<<h>> \o c : h \in VecHeaders, c \in BoundedSeq(VecLines, MaxLines)}

InitVec == vec_file \in VecFiles /\ vec_out = None /\ IdleCsv /\ IdleAgg

ReadVecFile ==
    /\ vec_out' = [op |-> "read_vec_file", ret |-> read_vec_file(vec_file)]
    /\ UNCHANGED <<vec_file, csvVars, aggVars>>

ReadVecFileAsDict ==
    /\ vec_out' = [op |-> "read_vec_file_as_dict", ret |-> read_vec_file_as_dict(vec_file)]
    /\ UNCHANGED <<vec_file, csvVars, aggVars>>

ReadVecFileWithAxes ==
    /\ vec_out' = [op |-> "read_vec_file_with_axes", ret |-> read_vec_file_with_axes(vec_file)]
    /\ UNCHANGED <<vec_file, csvVars, aggVars>>

NextVec == ReadVecFile \/ ReadVecFileAsDict \/ ReadVecFileWithAxes

SpecVec == InitVec /\ [][NextVec]_vars

(***************************************************************************)
(* scalar_projection, the plot and the two correlation coefficients.       *)
(***************************************************************************)
RECURSIVE Sum(_)
Sum(s) == IF s = <<>> THEN 0 ELSE Head(s) + Sum(Tail(s))

Dot(u, v) == Sum([j \in 1..Len(u) |-> u[j] * v[j]])

\* the projections onto the x and y axes.  The unit axis is (a - b) / norm(a - b);
\* x_proj[i] carries dot(vectors[i], a - b), to be read over the square root of
\* x_normsq, and is nan when the norm is 0 (0 / 0 in numpy).  np.dot raises when
\* the array of vectors is empty (shape (0,)) or of another dimension than the axis.
scalar_projection(vectors, axis_vectors) ==
    LET x_axis == [j \in 1..Len(axis_vectors[1]) |-> axis_vectors[1][j] - axis_vectors[2][j]]
        y_axis == [j \in 1..Len(axis_vectors[3]) |-> axis_vectors[3][j] - axis_vectors[4][j]]
        proj(v, axis) == IF Dot(axis, axis) = 0 THEN NaN ELSE Num(Dot(v, axis))
    IN  IF vectors = <<>> \/ \E i \in 1..Len(vectors) : Len(vectors[i]) /= Len(x_axis)
        THEN Raise("ValueError", "np.dot")
        ELSE [kind |-> "ok",
              x_proj |-> [i \in 1..Len(vectors) |-> proj(vectors[i], x_axis)],
              x_normsq |-> Dot(x_axis, x_axis),
              y_proj |-> [i \in 1..Len(vectors) |-> proj(vectors[i], y_axis)],
              y_normsq |-> Dot(y_axis, y_axis)]

\* ax.scatter raises ValueError when x and y differ in size
scatter_plot(x_proj, y_proj) ==
    IF Len(x_proj) /= Len(y_proj) THEN Raise("ValueError", "scatter_plot")
    ELSE [kind |-> "ok"]

Sign(a) == IF a > 0 THEN 1 ELSE IF a < 0 THEN 0 - 1 ELSE 0

\* the correlation coefficient of two samples of integers, in hundredths cut
\* toward zero; nan when either sample is constant
Correlation(x, y) ==
    LET n == Len(x)
        cov == n * Dot(x, y) - Sum(x) * Sum(y)
        vx == n * Dot(x, x) - Sum(x) * Sum(x)
        vy == n * Dot(y, y) - Sum(y) * Sum(y)
    IN  IF vx = 0 \/ vy = 0 THEN NaN
        ELSE Num(Sign(cov) * (CHOOSE k \in 0..100 :
                 /\ k * k * vx * vy <= 10000 * cov * cov
                 /\ (k = 100 \/ (k + 1) * (k + 1) * vx * vy > 10000 * cov * cov)))

\* scipy.stats.pearsonr of two sequences of floats: a ValueError for samples of
\* different lengths or of fewer than 2 values (releases of scipy that let such
\* samples through pearsonr raise the ValueError in mstats.spearmanr, the next
\* call: the session ends in the same exception either way)
pearsonr(x, y) ==
    IF Len(x) /= Len(y) \/ Len(x) < 2 THEN Raise("ValueError", "pearsonr")
    ELSE IF \E i \in 1..Len(x) : x[i].nan \/ y[i].nan
    THEN [kind |-> "ok", r |-> NaN]
    ELSE [kind |-> "ok",
          r |-> Correlation([i \in 1..Len(x) |-> x[i].v], [i \in 1..Len(y) |-> y[i].v])]

\* twice the average rank of each value of a sample
Ranks2(x) ==
    [i \in 1..Len(x) |->
        2 * Cardinality({j \in 1..Len(x) : x[j] < x[i]})
        + Cardinality({j \in 1..Len(x) : x[j] = x[i]}) + 1]

\* scipy.stats.mstats.spearmanr: the correlation of the ranks
spearmanr(x, y) ==
    IF Len(x) /= Len(y) \/ Len(x) < 2 THEN Raise("ValueError", "spearmanr")
    ELSE IF \E i \in 1..Len(x) : x[i].nan \/ y[i].nan
    THEN [kind |-> "ok", r |-> NaN]
    ELSE [kind |-> "ok",
          r |-> Correlation(Ranks2([i \in 1..Len(x) |-> x[i].v]),
                            Ranks2([i \in 1..Len(y) |-> y[i].v]))]

Floats(s) == [i \in 1..Len(s) |-> Num(s[i])]

\* sum += value
Add(a, b) == IF a.nan \/ b.nan THEN NaN ELSE Num(a.v + b.v)

(***************************************************************************)
(* evaluate_ideology_projection: one session in file-with-axes mode.       *)
(* The record returned is the call's outcome with what the call had read.  *)
(***************************************************************************)
Evaluated(out, n_vectors, n_reference, failed_to_graph) ==
    [outcome |-> out, n_vectors |-> n_vectors, n_reference |-> n_reference,
     failed_to_graph |-> failed_to_graph]

evaluate_ideology_projection(file, rows) ==
    LET ref == read_dwnominate_csv(rows) IN
    IF ref.kind = "raise" THEN Evaluated(ref, 0 - 1, 0 - 1, FALSE)
    ELSE LET vec == read_vec_file_with_axes(file)
             n_ref == Len(ref.ideology_scores) IN
    IF vec.kind = "raise" THEN Evaluated(vec, 0 - 1, n_ref, FALSE)
    ELSE LET proj == scalar_projection(vec.vectors, vec.axis_vectors)
             n_vec == Len(vec.vectors) IN
    IF proj.kind = "raise" THEN Evaluated(proj, n_vec, n_ref, FALSE)
    ELSE LET ideology == Floats(ref.ideology_scores)
             failed == scatter_plot(proj.x_proj, ideology).kind = "raise"
             pearson == pearsonr(proj.x_proj, ideology)
             spearman == spearmanr(proj.x_proj, ideology) IN
    IF pearson.kind = "raise" THEN Evaluated(pearson, n_vec, n_ref, failed)
    ELSE IF spearman.kind = "raise" THEN Evaluated(spearman, n_vec, n_ref, failed)
    ELSE Evaluated([kind |-> "ok", pearson |-> pearson.r, spearman |-> spearman.r],
                   n_vec, n_ref, failed)

(***************************************************************************)
(* dict_compare_among_years: the axes, and one session of the loop.        *)
(***************************************************************************)
axis == <<w_conservative, w_liberal, w_good, w_bad>>

\* axis_vectors, or the KeyError of a missing axis word
dict_axis_vectors(d) ==
    IF \E a \in 1..4 : axis[a] \notin DOMAIN d THEN Raise("KeyError", "vec_dict[a]")
    ELSE IF \E a \in 1..4 : Len(d[axis[a]]) /= Len(d[axis[1]])
    THEN Raise("ValueError", "np.array")
    ELSE [kind |-> "ok", axis_vectors |-> [a \in 1..4 |-> d[axis[a]]]]

NoJoin == [in_vocab_labels |-> <<>>, in_vocab_vec |-> <<>>, in_vocab_score |-> <<>>]

\* a join that gives a senator without a vector the vector of the first axis word
RECURSIVE join_imputing(_, _, _, _)
join_imputing(d, senators, ideology, acc) ==
    IF senators = <<>> THEN acc
    ELSE join_imputing(d, Tail(senators), Tail(ideology),
             [in_vocab_labels |-> Append(acc.in_vocab_labels, Head(senators)),
              in_vocab_vec |-> Append(acc.in_vocab_vec,
                                      IF Head(senators) \in DOMAIN d
                                      THEN d[Head(senators)] ELSE d[axis[1]]),
              in_vocab_score |-> Append(acc.in_vocab_score, Head(ideology))])

\* the loop "for i, senator in enumerate(senators)"
RECURSIVE join(_, _, _, _)
join(d, senators, ideology, acc) ==
    IF senators = <<>> THEN acc
    ELSE IF Head(senators) \in DOMAIN d
    THEN join(d, Tail(senators), Tail(ideology),
              [in_vocab_labels |-> Append(acc.in_vocab_labels, Head(senators)),
               in_vocab_vec |-> Append(acc.in_vocab_vec, d[Head(senators)]),
               in_vocab_score |-> Append(acc.in_vocab_score, Head(ideology))])
    ELSE join(d, Tail(senators), Tail(ideology), acc)

\* [w for w in senators if w not in in_vocab_labels]
missing_of(senators, in_vocab_labels) ==
    SelectSeq(senators, LAMBDA w : \A k \in 1..Len(in_vocab_labels) : in_vocab_labels[k] /= w)

DictEvaluated(out, ref, j, missing) ==
    [outcome |-> out, senators |-> ref.names, ideology |-> ref.ideology_scores,
     in_vocab_labels |-> j.in_vocab_labels, in_vocab_vec |-> j.in_vocab_vec,
     in_vocab_score |-> j.in_vocab_score, missing |-> missing]

\* the body of the loop for one session
dict_evaluate(d, rows) ==
    LET ref == read_dwnominate_csv(rows) IN
    IF ref.kind = "raise"
    THEN DictEvaluated(ref, [names |-> <<>>, ideology_scores |-> <<>>], NoJoin, <<>>)
    ELSE LET j == join(d, ref.names, ref.ideology_scores, NoJoin)
             missing == missing_of(ref.names, j.in_vocab_labels)
             proj == scalar_projection(j.in_vocab_vec, dict_axis_vectors(d).axis_vectors) IN
    IF proj.kind = "raise" THEN DictEvaluated(proj, ref, j, missing)
    ELSE LET score == Floats(j.in_vocab_score)
             plot == scatter_plot(proj.x_proj, score)
             pearson == pearsonr(proj.x_proj, score)
             spearman == spearmanr(proj.x_proj, score) IN
    IF plot.kind = "raise" THEN DictEvaluated(plot, ref, j, missing)
    ELSE IF pearson.kind = "raise" THEN DictEvaluated(pearson, ref, j, missing)
    ELSE IF spearman.kind = "raise" THEN DictEvaluated(spearman, ref, j, missing)
    ELSE DictEvaluated([kind |-> "ok", pearson |-> pearson.r, spearman |-> spearman.r],
                       ref, j, missing)

(***************************************************************************)
(* The inputs of the multi-session runs.                                   *)
(***************************************************************************)
a_cons == <<"c", "o", "n", "s", "e", "r", "v", "a", "t", "i", "v", "e", " ", "1", " ", "0">>
a_lib == <<"l", "i", "b", "e", "r", "a", "l", " ", "-", "1", " ", "0">>
a_good == <<"g", "o", "o", "d", " ", "0", " ", "1">>
a_bad == <<"b", "a", "d", " ", "0", " ", "-", "1">>
a_lib_same == <<"l", "i", "b", "e", "r", "a", "l", " ", "1", " ", "0">>
q_alice == <<"a", "l", "i", "c", "e", " ", "3", " ", "1">>
q_bob == <<"b", "o", "b", " ", "-", "2", " ", "1">>
q_carol == <<"c", "a", "r", "o", "l", " ", "1", " ", "3">>
h_9_2 == <<"9", " ", "2">>

\* the S{}_members.csv files a session may find
AggCsvs ==
    { <<Row(bn_alice, <<"1">>), Row(bn_bob, <<"-", "1">>), Row(bn_dave, <<"2">>)>>,
      <<Row(bn_alice, <<"1">>), Row(bn_bob, <<"3">>), Row(bn_carol, <<"2">>)>>,
      <<Row(bn_alice, <<"1">>), Row(bn_bob, <<"1">>)>>,
      <<Row(bn_alice, <<"1">>), Row(bn_dave, <<"2">>)>>,
      <<Row(bn_alice, <<>>), Row(bn_bob, <<"-", "1">>), Row(bn_carol, <<"2">>)>>,
      <<Row(bn_carol, <<"x">>)>>,
      <<Row(bn_dave, <<"1">>)>> }

\* the S{}.vec files a session may find: the four axis lines, then the senators
AggVecFiles ==
    { <<a_cons, a_lib, a_good, a_bad, q_alice, q_bob, q_carol>>,
      <<a_cons, a_lib, a_good, a_bad, q_alice, q_bob>>,
      <<a_cons, a_lib, a_good, a_bad>>,
      <<a_cons, a_lib, a_good>>,
      <<a_cons, a_lib_same, a_good, a_bad, q_alice, q_bob>>,
      <<a_cons, a_lib, a_good, a_bad, q_alice, l_dave_x>> }

\* the word2vec models: complete, without the axis word 'bad', and with
\* 'liberal' equal to 'conservative'
AggDicts ==
    { read_vec_file_as_dict(f).dict :
        f \in { <<h_9_2, l_coffee, a_cons, a_lib, a_good, a_bad, q_alice, q_bob, q_carol>>,
                <<h_9_2, l_coffee, a_cons, a_lib, a_good, q_alice, q_bob, q_carol>>,
                <<h_9_2, l_coffee, a_cons, a_lib_same, a_good, a_bad, q_alice, q_bob, q_carol>> } }

(***************************************************************************)
(* compare_among_years and dict_compare_among_years.                       *)
(***************************************************************************)
Init ==
    /\ mode \in {"file", "dict"}
    /\ vec_dict \in (IF mode = "dict" THEN AggDicts ELSE {<<>>})
    /\ start \in 1..MaxStart
    /\ end \in start..(start + MaxCohorts)
    /\ cgrs_sess = start
    /\ sum_pearson = Num(0)
    /\ sum_spearman = Num(0)
    /\ calls = <<>>
    /\ last = None
    /\ printed = <<>>
    /\ status = (IF mode = "dict" THEN "start" ELSE "running")
    /\ error = None
    /\ report = None
    /\ IdleVec
    /\ IdleCsv

\* what one pass of either loop does with the outcome of its session: the sums
\* grow and the loop goes on, or the exception leaves the function
LoopStep(ev, file, rows) ==
    /\ calls' = Append(calls, cgrs_sess)
    /\ last' = [sess |-> cgrs_sess, mode |-> mode, vec_file |-> file, csv_file |-> rows,
                ev |-> ev]
    /\ IF ev.outcome.kind = "raise"
       THEN /\ status' = "aborted"
            /\ error' = ev.outcome
            /\ UNCHANGED <<cgrs_sess, sum_pearson, sum_spearman, printed>>
       ELSE /\ printed' = Append(printed, [sess |-> cgrs_sess,
                                           pearson |-> ev.outcome.pearson,
                                           spearman |-> ev.outcome.spearman])
            /\ sum_pearson' = Add(sum_pearson, ev.outcome.pearson)
            /\ sum_spearman' = Add(sum_spearman, ev.outcome.spearman)
            /\ cgrs_sess' = cgrs_sess + 1
            /\ UNCHANGED <<status, error>>
    /\ UNCHANGED <<mode, vec_dict, start, end, report, vecVars, csvVars>>

\* the two averages printed after the loop: each sum over end - start
PrintAverages ==
    IF end - start = 0
    THEN /\ status' = "aborted"
         /\ error' = Raise("ZeroDivisionError", "average")
         /\ UNCHANGED report
    ELSE /\ status' = "done"
         /\ report' = [pearson |-> [sum |-> sum_pearson, over |-> end - start],
                       spearman |-> [sum |-> sum_spearman, over |-> end - start]]
         /\ UNCHANGED error

compare_among_years_loop ==
    /\ mode = "file" /\ status = "running" /\ cgrs_sess < end
    /\ \E file \in AggVecFiles, rows \in AggCsvs :
          LoopStep(evaluate_ideology_projection(file, rows), file, rows)

compare_among_years_averages ==
    /\ mode = "file" /\ status = "running" /\ cgrs_sess >= end
    /\ PrintAverages
    /\ UNCHANGED <<mode, vec_dict, start, end, cgrs_sess, sum_pearson, sum_spearman,
                   calls, last, printed, vecVars, csvVars>>

dict_compare_among_years_axes ==
    /\ mode = "dict" /\ status = "start"
    /\ IF dict_axis_vectors(vec_dict).kind = "raise"
       THEN /\ status' = "aborted"
            /\ error' = dict_axis_vectors(vec_dict)
       ELSE /\ status' = "running"
            /\ UNCHANGED error
    /\ UNCHANGED <<mode, vec_dict, start, end, cgrs_sess, sum_pearson, sum_spearman,
                   calls, last, printed, report, vecVars, csvVars>>

dict_compare_among_years_loop ==
    /\ mode = "dict" /\ status = "running" /\ cgrs_sess < end
    /\ \E rows \in AggCsvs : LoopStep(dict_evaluate(vec_dict, rows), <<>>, rows)

dict_compare_among_years_averages ==
    /\ mode = "dict" /\ status = "running" /\ cgrs_sess >= end
    /\ PrintAverages
    /\ UNCHANGED <<mode, vec_dict, start, end, cgrs_sess, sum_pearson, sum_spearman,
                   calls, last, printed, vecVars, csvVars>>

Next ==
    \/ compare_among_years_loop
    \/ compare_among_years_averages
    \/ dict_compare_among_years_axes
    \/ dict_compare_among_years_loop
    \/ dict_compare_among_years_averages

Spec == Init /\ [][Next]_vars

(***************************************************************************)
(* Properties of the readers.                                              *)
(***************************************************************************)
\* the position of the first comma of s, or Len(s) + 1
FirstComma(s) ==
    IF \E i \in 1..Len(s) : s[i] = ","
    THEN CHOOSE i \in 1..Len(s) : s[i] = "," /\ \A j \in 1..(i - 1) : s[j] /= ","
    ELSE Len(s) + 1

\* the part of a bioname before its first comma, lowercased
LastName(s) == [j \in 1..(FirstComma(s) - 1) |-> lower_char(s[j])]

ScoresParse(rows) ==
    \A i \in 1..Len(rows) : rows[i].dim1 = <<>> \/ IsNumber(rows[i].dim1)

\* C4: a row whose dim1 is empty comes back with score 0.0 and with the name
\* "<normalized last name>(missing score)", which is never a plain last name.
C4_MissingScoreTagged ==
    csv_out.kind = "ok" =>
        \A i \in 1..Len(csv_file) :
            csv_file[i].dim1 = <<>> =>
                /\ csv_out.ideology_scores[i] = 0
                /\ csv_out.names[i] = LastName(csv_file[i].bioname) \o MissingTag
                /\ csv_out.names[i] /= LastName(csv_file[i].bioname)

\* C10: scores and names have one entry per row, in row order; a row with a
\* score gets that score parsed and its own bioname cut before the first comma
\* and lowercased, whatever rows with a missing score come before it.
C10_RowOrderKept ==
    (csv_out /= None /\ ScoresParse(csv_file)) =>
        /\ csv_out.kind = "ok"
        /\ Len(csv_out.ideology_scores) = Len(csv_file)
        /\ Len(csv_out.names) = Len(csv_file)
        /\ \A i \in 1..Len(csv_file) :
              csv_file[i].dim1 /= <<>> =>
                  /\ csv_out.ideology_scores[i] = NumberVal(csv_file[i].dim1)
                  /\ csv_out.names[i] = LastName(csv_file[i].bioname)

\* a row with a missing score, then a row with a score and a comma in its name
C10_Witness ==
    /\ csv_out.kind = "ok"
    /\ Len(csv_file) >= 2
    /\ csv_file[1].dim1 = <<>>
    /\ csv_file[2].dim1 /= <<>>
    /\ FirstComma(csv_file[2].bioname) <= Len(csv_file[2].bioname)
    /\ csv_out.names[2] = w_bob
    /\ csv_out.ideology_scores[2] = 0 - 1

HeaderInts(file) ==
    /\ file /= <<>>
    /\ Len(split(file[1])) = 2
    /\ IsNumber(split(file[1])[1])
    /\ IsNumber(split(file[1])[2])

\* every content line is a label and the same number (at least one) of numbers
WellFormedContent(file) ==
    \A i \in 2..Len(file) :
        LET t == split(file[i]) IN
        /\ Len(t) >= 2
        /\ Len(t) = Len(split(file[2]))
        /\ \A j \in 2..Len(t) : IsNumber(t[j])

HeaderDisagrees(file) ==
    LET h == split(file[1])
        n == Len(file) - 1
    IN  \/ NumberVal(h[1]) /= n
        \/ n > 0 /\ NumberVal(h[2]) /= Len(split(file[2])) - 1

\* C7: read_vec_file on well-formed content lines returns the vectors and labels
\* of those lines in file order whatever the header says; a header that disagrees
\* with the content only sets the warning, one that agrees gives vocab_size
\* vectors of length embed_dim.
C7_HeaderAdvisory ==
    (vec_out /= None /\ vec_out.op = "read_vec_file"
        /\ HeaderInts(vec_file) /\ WellFormedContent(vec_file)) =>
        LET ret == vec_out.ret
            h == split(vec_file[1])
            n == Len(vec_file) - 1
        IN  /\ ret.kind = "ok"
            /\ Len(ret.vectors) = n
            /\ Len(ret.labels) = n
            /\ \A i \in 1..n :
                  LET t == split(vec_file[i + 1]) IN
                  /\ ret.labels[i] = t[1]
                  /\ Len(ret.vectors[i]) = Len(t) - 1
                  /\ \A j \in 1..(Len(t) - 1) : ret.vectors[i][j] = NumberVal(t[j + 1])
            /\ HeaderDisagrees(vec_file) => ret.warned
            /\ ~HeaderDisagrees(vec_file) =>
                  /\ n = NumberVal(h[1])
                  /\ \A i \in 1..n : Len(ret.vectors[i]) = NumberVal(h[2])

\* two vectors read under a header that announces three
C7_Witness ==
    /\ vec_out /= None
    /\ vec_out.op = "read_vec_file"
    /\ vec_file = <<h_3_2, l_alice, l_bob>>
    /\ vec_out.ret.kind = "ok"
    /\ vec_out.ret.warned
    /\ vec_out.ret.vectors = <<(<<1, 0>>), (<<0, 1>>)>>

\* C8: read_vec_file_as_dict on a well-formed file with content returns a mapping whose keys
\* are the labels of the file, each mapped to the vector of its last line.
C8_DictOfEveryFile ==
    (vec_out /= None /\ vec_out.op = "read_vec_file_as_dict"
        /\ Len(vec_file) >= 2 /\ HeaderInts(vec_file) /\ WellFormedContent(vec_file)) =>
        LET ret == vec_out.ret IN
        /\ ret.kind = "ok"
        /\ DOMAIN ret.dict = {split(vec_file[i])[1] : i \in 2..Len(vec_file)}
        /\ \A i \in 2..Len(vec_file) :
              LET t == split(vec_file[i]) IN
              (\A k \in (i + 1)..Len(vec_file) : split(vec_file[k])[1] /= t[1]) =>
                  ret.dict[t[1]] = [j \in 1..(Len(t) - 1) |-> NumberVal(t[j + 1])]

\* a content line with fewer than 2 tokens after the label, or with a token that
\* is no number
BadLine(line) ==
    LET t == split(line) IN
    Len(t) < 3 \/ \E j \in 2..Len(t) : ~IsNumber(t[j])

\* C9: read_vec_file on an empty file, or on a file with a short line or a
\* non-numeric component, ends in a ParseError.
C9_ParseErrorRaised ==
    (vec_out /= None /\ vec_out.op = "read_vec_file"
        /\ (vec_file = <<>> \/ \E i \in 2..Len(vec_file) : BadLine(vec_file[i]))) =>
        /\ vec_out.ret.kind = "raise"
        /\ vec_out.ret.exc = "ParseError"

(***************************************************************************)
(* Properties of the multi-session runs.                                   *)
(***************************************************************************)
\* the values of one coefficient over the sessions where it is a number
Computed(stat) ==
    LET all == [i \in 1..Len(printed) |-> IF stat = "pearson" THEN printed[i].pearson
                                          ELSE printed[i].spearman]
        defined == SelectSeq(all, LAMBDA f : ~f.nan)
    IN  [i \in 1..Len(defined) |-> defined[i].v]

\* C1: each reported average is the sum of the coefficient over the sessions
\* where it was computed, divided by the number of those sessions.
C1_AverageOverComputed ==
    status = "done" =>
        /\ Len(Computed("pearson")) >= 1 =>
              report.pearson = [sum |-> Num(Sum(Computed("pearson"))),
                                over |-> Len(Computed("pearson"))]
        /\ Len(Computed("spearman")) >= 1 =>
              report.spearman = [sum |-> Num(Sum(Computed("spearman"))),
                                 over |-> Len(Computed("spearman"))]

\* C2: the sessions are evaluated once each in increasing order, no failure of
\* a session ends the run, and a run that ended has evaluated its whole range
\* and reported the averages.
C2_RunSurvivesFailure ==
    /\ calls = [i \in 1..Len(calls) |-> start + i - 1]
    /\ status = "aborted" => calls = <<>>
    /\ status = "done" => Len(calls) = end - start /\ report /= None

\* C3: in file-with-axes mode, vectors (one or more) and reference records of
\* different numbers end the session in the length-mismatch error, raised before any
\* correlation routine is entered.
C3_LengthMismatchNamed ==
    (last /= None /\ last.mode = "file" /\ last.ev.n_vectors >= 1
        /\ last.ev.n_reference >= 0 /\ last.ev.n_vectors /= last.ev.n_reference) =>
        /\ last.ev.outcome.kind = "raise"
        /\ last.ev.outcome.exc = "JoinLengthMismatch"
        /\ last.ev.outcome.site \notin {"pearsonr", "spearmanr"}

\* the reference rows of the latest session whose name is a key of vec_dict
InVocab == {i \in 1..Len(last.ev.senators) : last.ev.senators[i] \in DOMAIN vec_dict}
\* the k-th of them in row order
NthInVocab(k) == CHOOSE i \in InVocab : Cardinality({j \in InVocab : j < i}) = k - 1

\* C5: in dictionary mode the retained sample is the reference rows whose name
\* is a key of vec_dict, in row order, label, vector and score of one row
\* together; every other name is in the missing list and nowhere in the sample.
C5_JoinKeepsKeysInOrder ==
    (last /= None /\ last.mode = "dict") =>
        LET ev == last.ev
            n == Cardinality(InVocab)
        IN  /\ Len(ev.in_vocab_labels) = n
            /\ Len(ev.in_vocab_vec) = n
            /\ Len(ev.in_vocab_score) = n
            /\ \A k \in 1..n :
                  /\ ev.in_vocab_labels[k] = ev.senators[NthInVocab(k)]
                  /\ ev.in_vocab_vec[k] = vec_dict[ev.senators[NthInVocab(k)]]
                  /\ ev.in_vocab_score[k] = ev.ideology[NthInVocab(k)]
            /\ \A i \in 1..Len(ev.senators) :
                  ev.senators[i] \notin DOMAIN vec_dict =>
                      /\ \E m \in 1..Len(ev.missing) : ev.missing[m] = ev.senators[i]
                      /\ \A k \in 1..n : ev.in_vocab_labels[k] /= ev.senators[i]
            /\ \A m \in 1..Len(ev.missing) : ev.missing[m] \notin DOMAIN vec_dict

\* alice, bob and dave against a mapping without dave
C5_Witness ==
    /\ last /= None
    /\ last.mode = "dict"
    /\ last.ev.senators = <<w_alice, w_bob, w_dave>>
    /\ last.ev.in_vocab_labels = <<w_alice, w_bob>>
    /\ last.ev.in_vocab_vec = <<(<<3, 1>>), (<<0 - 2, 1>>)>>
    /\ last.ev.in_vocab_score = <<1, 0 - 1>>
    /\ last.ev.missing = <<w_dave>>
    /\ last.ev.outcome.kind = "ok"

\* the paired samples of the latest session, or -1 when it has none to count
Pairs ==
    IF last.mode = "dict"
    THEN (IF last.ev.outcome.kind = "raise" /\ last.ev.outcome.site = "np.array"
          THEN 0 - 1 ELSE Len(last.ev.in_vocab_labels))
    ELSE (IF last.ev.n_vectors = last.ev.n_reference THEN last.ev.n_vectors ELSE 0 - 1)

\* C6: a session with 0 or 1 paired samples ends in an undefined-correlation
\* outcome, neither a raised exception nor a number; one with 2 or more pairs
\* has its correlation computed.
C6_UndefinedNotRaised ==
    last /= None =>
        /\ Pairs \in {0, 1} =>
              /\ last.ev.outcome.kind /= "raise"
              /\ last.ev.outcome.kind = "ok" =>
                    last.ev.outcome.pearson.nan /\ last.ev.outcome.spearman.nan
        /\ Pairs >= 2 => last.ev.outcome.kind = "ok"

====
